---- MODULE Spec2Model ----
(***************************************************************************)
(* Model of vivid-nexus: the supervisor actor (actor.go), the registry     *)
(* operations (operator.go) and the per-session actor (session.go).        *)
(*                                                                         *)
(* The vivid runtime is an external collaborator.  It is modelled by what  *)
(* the code relies on: a spawned unit has an address of its own, a serial  *)
(* inbox for user messages (TellSelf) and a count of pending kill          *)
(* requests (Kill(ref, false, ...) is not ordered with user messages, so   *)
(* OnKill may be handled before or after a queued frame).  A unit that     *)
(* handled OnKill is terminated by the runtime at some later step; what is *)
(* still queued then is discarded and the supervisor gets OnKilled.  The   *)
(* runtime runs OnPrelaunch within the spawn; a panic that leaves a        *)
(* handler is the runtime's to deal with: it resumes the unit or stops it. *)
(***************************************************************************)
EXTENDS Integers, Sequences, FiniteSets, TLC

\* ---------------------------------------------------------------- bounds
MaxFrames == 2      \* frames the FrameReaders yield in all before they must fail
MaxKills  == 2      \* pending kill requests kept per unit (more are merged)
MaxList   == 3      \* identities in the list given to SendTo
MaxHandlers == 2    \* error handlers given to SendTo or Broadcast
MaxRead   == 2      \* bytes one Session.Read stores at most
MaxReads  == 3      \* calls of defaultSessionReader.Read that are followed

\* ------------------------------------------------------------- universe
Units   == {1, 2}               \* session units, in order of creation
Ids     == {"A"}                \* session identities
Senders == {11}                 \* foreign goroutines calling Send
Senders2 == {11, 12}            \* the same, with a second concurrent caller
SendToIds == {"A", "B"}         \* identities SendTo and Broadcast deal with
SupRef  == 0                    \* the supervisor's own address
NoUnit  == 0                    \* registry: no entry
NoWrite == <<0, 0>>             \* no Session.Write in the step just taken

\* Session.GetSessionId: the sessions present the same identity, so a later
\* one replaces an earlier one.
GetSessionId(u) == "A"

Min(a, b) == IF a < b THEN a ELSE b

VARIABLES
    sessionsNil,    \* actor.sessions == nil
    sessions,       \* actor.sessions: identity -> unit (ref), NoUnit if absent
    supSt,          \* supervisor: "init", "running", "killed"
    supCur,         \* onSession: unit spawned but not yet registered
    notices,        \* OnKilled notices queued at the supervisor
    ust,            \* unit: "new","told","failed","spawned","live","dead"
    upc,            \* unit serial context: "idle","killGate","killClose",
                    \*   "closing","signal","signalF","fault", and
                    \*   "killGateF","killCloseF","closingF" for the teardown
                    \*   that runs while OnDisconnected's panic unwinds
    rpc,            \* read loop: "none","check","read","wait","exit","done"
    closed,         \* sessionActor.closed
    gateClosed,     \* messageC has been closed
    inbox,          \* frames told to the unit, not yet handled
    kills,          \* kill requests pending for the unit
    log,            \* per unit: observable events in order
    lastWrite,      \* the Session.Write of the step just taken, if any:
                    \*   <<caller, unit written to>>
    snd,            \* per sender: the Send call in progress
    call,           \* the SendTo or Broadcast call in progress
    rd              \* a unit on the default reader: the reader's fields, the
                    \*   results of Read, the read loop and the payloads
                    \*   OnMessage was given

vars == <<sessionsNil, sessions, supSt, supCur, notices, ust, upc, rpc, closed,
          gateClosed, inbox, kills, log, lastWrite, snd, call, rd>>

supVars  == <<sessionsNil, supSt, supCur, notices>>

\* ------------------------------------------------------------ log helpers
Ev(kind, k) == <<kind, k>>
Count(u, kind) == Cardinality({i \in DOMAIN log[u] : log[u][i][1] = kind})
Pos(u, kind) == {i \in DOMAIN log[u] : log[u][i][1] = kind}
RECURSIVE Payloads(_, _)
Payloads(s, kind) ==
    IF s = <<>> THEN <<>>
    ELSE IF Head(s)[1] = kind THEN <<Head(s)[2]>> \o Payloads(Tail(s), kind)
    ELSE Payloads(Tail(s), kind)

RECURSIVE SumReads(_)
SumReads(U) ==
    IF U = {} THEN 0
    ELSE LET u == CHOOSE x \in U : TRUE IN Count(u, "R") + SumReads(U \ {u})

Alive(u) == ust[u] \in {"spawned", "live"}

IdleSend == [pc |-> "idle", id |-> "A", msg |-> 0, tgt |-> NoUnit,
             ret |-> "none", found |-> FALSE, did |-> FALSE]

\* no SendTo or Broadcast is in progress
IdleCall == [pc |-> "idle", op |-> "none", ids |-> <<>>, msg |-> 0, nh |-> 0,
             i |-> 1, sended |-> {}, sends |-> <<>>, writes |-> <<>>,
             handled |-> <<>>, aborted |-> FALSE, cap |-> 0, rlock |-> FALSE]

\* newDefaultSessionReader(session) with the read loop about to call Read:
\* no pending error, nothing read, nothing handed over
NewReader == [session |-> TRUE, pendingErr |-> "nil", off |-> 0,
              results |-> <<>>, pc |-> "read", inbox |-> <<>>, msgs |-> <<>>]

\* sessionLock: the writers are single steps; a reader holds it from the
\* lookup of Send until Send returns (defer RUnlock).
RLockHeld == \E s \in Senders2 : snd[s].pc \in {"lockw", "writing"}
LockFree  == ~RLockHeld
\* mutant: the per-session write lock excludes nobody
WriteLockHeld_never(v) == FALSE

\* sessionInfo.writeLock: held by a Send around its Write and by the deferred
\* part of onKill around Session.Close
WriteLockHeld(v) ==
    \/ \E s \in Senders2 : snd[s].pc = "writing" /\ snd[s].tgt = v
    \/ (v \in Units /\ upc[v] \in {"closing", "closingF"})

Lookup(id) == IF sessionsNil THEN NoUnit ELSE sessions[id]

\* ctx.Kill(ref, false, reason): fire and forget; dropped when the unit is gone
KillRef(k, v) ==
    IF Alive(v) THEN [k EXCEPT ![v] = Min(@ + 1, MaxKills)] ELSE k

Init ==
    /\ sessionsNil = TRUE
    /\ sessions = [i \in Ids |-> NoUnit]
    /\ supSt = "init"
    /\ supCur = NoUnit
    /\ notices = {}
    /\ ust = [u \in Units |-> "new"]
    /\ upc = [u \in Units |-> "idle"]
    /\ rpc = [u \in Units |-> "none"]
    /\ closed = [u \in Units |-> FALSE]
    /\ gateClosed = [u \in Units |-> FALSE]
    /\ inbox = [u \in Units |-> <<>>]
    /\ kills = [u \in Units |-> 0]
    /\ log = [u \in Units |-> <<>>]
    /\ lastWrite = NoWrite
    /\ snd = [s \in Senders2 |-> IdleSend]
    /\ call = IdleCall
    /\ rd = NewReader

\* ------------------------------------------------------------- operator.go
\* operator.Close(sessionId): under sessionLock, delete the entry of sessionId
\* and Kill its ref.
Close_found(sessionId) == Lookup(sessionId) # NoUnit
\* mutant: the entry is left in the map
Close_sessions_keep(sessionId) == sessions

Close_sessions(sessionId) ==
    IF Close_found(sessionId) THEN [sessions EXCEPT ![sessionId] = NoUnit]
    ELSE sessions
Close_kills(k, sessionId) ==
    IF Close_found(sessionId) THEN KillRef(k, Lookup(sessionId)) ELSE k

\* operator.Close called from a foreign goroutine
Close(sessionId) ==
    /\ LockFree
    /\ sessions' = Close_sessions(sessionId)
    /\ kills' = Close_kills(kills, sessionId)
    /\ lastWrite' = NoWrite
    /\ UNCHANGED <<call, rd, supVars, ust, upc, rpc, closed, gateClosed, inbox, log, snd>>

\* mutant: no early return
Send_empty_never(message) == FALSE

\* operator.Send: the early return on an empty message
Send_empty(message) == message = 0

\* operator.Send up to the lookup: empty message returns nil at once; an
\* absent identity returns nil; otherwise the caller goes on to writeLock
\* while still holding the read lock.
Send_begin(s, sessionId, message) ==
    /\ snd[s].pc = "idle"
    /\ snd' = [snd EXCEPT ![s] =
         IF Send_empty(message)
         THEN [IdleSend EXCEPT !.pc = "ret", !.id = sessionId, !.msg = message,
                               !.ret = "nil"]
         ELSE IF Lookup(sessionId) = NoUnit
         THEN [IdleSend EXCEPT !.pc = "ret", !.id = sessionId, !.msg = message,
                               !.ret = "nil"]
         ELSE [IdleSend EXCEPT !.pc = "lockw", !.id = sessionId, !.msg = message,
                               !.tgt = Lookup(sessionId), !.found = TRUE]]
    /\ lastWrite' = NoWrite
    /\ UNCHANGED <<call, rd, supVars, sessions, ust, upc, rpc, closed, gateClosed, inbox,
                   kills, log>>

\* info.writeLock.Lock()
Send_lockw(s) ==
    /\ snd[s].pc = "lockw"
    /\ ~WriteLockHeld(snd[s].tgt)
    /\ snd' = [snd EXCEPT ![s].pc = "writing"]
    /\ lastWrite' = NoWrite
    /\ UNCHANGED <<call, rd, supVars, sessions, ust, upc, rpc, closed, gateClosed, inbox,
                   kills, log>>

\* mutant: the error of Write is dropped
Send_err_dropped(ok) == "nil"

\* operator.Send: what it returns after Write succeeded (ok) or failed
Send_err(ok) == IF ok THEN "nil" ELSE "err"

\* info.Session.Write(message); both locks are released on return
Send_write(s) ==
    /\ snd[s].pc = "writing"
    /\ \E ok \in BOOLEAN :
         snd' = [snd EXCEPT ![s].pc = "ret", ![s].did = TRUE,
                            ![s].ret = Send_err(ok)]
    /\ lastWrite' = <<s, snd[s].tgt>>
    /\ UNCHANGED <<call, rd, supVars, sessions, ust, upc, rpc, closed, gateClosed, inbox,
                   kills, log>>

\* the caller takes the result
Send_return(s) ==
    /\ snd[s].pc = "ret"
    /\ snd' = [snd EXCEPT ![s] = IdleSend]
    /\ lastWrite' = NoWrite
    /\ UNCHANGED <<call, rd, supVars, sessions, ust, upc, rpc, closed, gateClosed, inbox,
                   kills, log>>

\* the registry as SendTo and Broadcast find it: entries for identities A
\* and B (here the second session presents B), each present or not
mainVars == <<sessionsNil, sessions, supSt, supCur, notices, ust, upc, rpc,
              closed, gateClosed, inbox, kills, log, lastWrite, snd, rd>>
Registries == {r \in [SendToIds -> Units \cup {NoUnit}] :
                 r["A"] \in {NoUnit, 1} /\ r["B"] \in {NoUnit, 2}}
Registered == {i \in DOMAIN sessions : Lookup(i) # NoUnit}

InitSendTo ==
    /\ sessionsNil = FALSE
    /\ sessions \in Registries
    /\ supSt = "running"
    /\ supCur = NoUnit
    /\ notices = {}
    /\ ust = [u \in Units |->
                IF \E i \in SendToIds : sessions[i] = u THEN "live" ELSE "new"]
    /\ upc = [u \in Units |-> "idle"]
    /\ rpc = [u \in Units |->
                IF \E i \in SendToIds : sessions[i] = u THEN "read" ELSE "none"]
    /\ closed = [u \in Units |-> FALSE]
    /\ gateClosed = [u \in Units |-> FALSE]
    /\ inbox = [u \in Units |-> <<>>]
    /\ kills = [u \in Units |-> 0]
    /\ log = [u \in Units |->
                IF \E i \in SendToIds : sessions[i] = u THEN <<Ev("C", 0)>>
                ELSE <<>>]
    /\ lastWrite = NoWrite
    /\ snd = [s \in Senders2 |-> IdleSend]
    /\ call = IdleCall
    /\ rd = NewReader

\* the identity lists a caller may pass
Lists == UNION {[1..n -> SendToIds] : n \in 0..MaxList}

\* operator.SendTo: the early return, else the loop starts
SendTo_start(c, sessionIds, message, handlers) ==
    [c EXCEPT !.pc = IF Len(sessionIds) = 0 \/ message = 0 THEN "done"
                     ELSE "loop",
              !.ids = sessionIds, !.msg = message, !.nh = handlers]

\* operator.SendTo called from a foreign goroutine
SendTo_call(sessionIds, message, handlers) ==
    /\ call.pc = "idle"
    /\ call' = SendTo_start([IdleCall EXCEPT !.op = "sendto"], sessionIds,
                            message, handlers)
    /\ UNCHANGED mainVars

\* mutant: no identity is taken to have been sent to
SendTo_skip_never(sended, sessionId) == FALSE

\* operator.SendTo: an identity already in sended is skipped
SendTo_skip(sended, sessionId) == sessionId \in sended

\* what o.Send(sessionId, message) may return, and whether it calls Write
Send_results(sessionId, message) ==
    IF Send_empty(message) \/ Lookup(sessionId) = NoUnit
    THEN {<<"nil", FALSE>>}
    ELSE {<<"nil", TRUE>>, <<"err", TRUE>>}

\* mutant: the answer of a handler is not looked at
SendTo_aborts_never(k) == FALSE

\* operator.SendTo: handler k (0: none) answered abort = true
SendTo_aborts(k) == k # 0

\* the handler calls made for a failed Send when handler k (0: none) is the
\* first to answer abort = true: <<identity, handler, answer>>
SendTo_handlers(sessionId, nh, k) ==
    [h \in 1..(IF SendTo_aborts(k) THEN k ELSE nh) |-> <<sessionId, h, h = k>>]

\* operator.SendTo: one round of the loop over sessionIds
SendTo_round ==
    /\ call.pc = "loop"
    /\ LET sessionId == call.ids[call.i]
           last == call.i = Len(call.ids)
           next == IF last THEN "done" ELSE "loop"
       IN IF SendTo_skip(call.sended, sessionId)
          THEN call' = [call EXCEPT !.i = @ + 1, !.pc = next]
          ELSE \E r \in Send_results(sessionId, call.msg), k \in 0..call.nh :
                 /\ (r[1] = "nil" \/ call.nh = 0) => k = 0
                 /\ call' = [call EXCEPT
                      !.sended = @ \cup {sessionId},
                      !.sends = Append(@, sessionId),
                      !.writes = IF r[2] THEN Append(@, <<sessionId, r[1]>>) ELSE @,
                      !.handled = IF r[1] = "err" /\ call.nh > 0
                                  THEN @ \o SendTo_handlers(sessionId, call.nh, k)
                                  ELSE @,
                      !.aborted = SendTo_aborts(k),
                      !.i = @ + 1,
                      !.pc = IF SendTo_aborts(k) THEN "done" ELSE next]
    /\ UNCHANGED mainVars

\* SendTo or Broadcast returns
SendTo_return ==
    /\ call.pc = "done"
    /\ call' = IdleCall
    /\ UNCHANGED mainVars

\* operator.Broadcast called from a foreign goroutine
Broadcast_call(message, handlers) ==
    /\ call.pc = "idle"
    /\ call' = [IdleCall EXCEPT !.op = "broadcast", !.pc = "len",
                                !.msg = message, !.nh = handlers]
    /\ UNCHANGED mainVars

\* operator.Broadcast: make([]string, 0, len(o.sessions)), before RLock
Broadcast_len ==
    /\ call.pc = "len"
    /\ call' = [call EXCEPT !.cap = Cardinality(Registered), !.pc = "rlock"]
    /\ UNCHANGED mainVars

\* operator.Broadcast: o.sessionLock.RLock()
Broadcast_rlock ==
    /\ call.pc = "rlock"
    /\ call' = [call EXCEPT !.rlock = TRUE, !.pc = "range"]
    /\ UNCHANGED mainVars

\* the orders in which a range over the map may yield the identities
Snapshots ==
    {q \in Lists : Len(q) = Cardinality(Registered)
                    /\ {q[j] : j \in DOMAIN q} = Registered}

\* operator.Broadcast: copy the keys, RUnlock, then SendTo with the copy
Broadcast_range ==
    /\ call.pc = "range"
    /\ \E q \in Snapshots :
         call' = SendTo_start([call EXCEPT !.rlock = FALSE], q, call.msg, call.nh)
    /\ UNCHANGED mainVars

\* operator.TakeoverSession: Tell the Session to the supervisor
TakeoverSession(u) ==
    /\ supSt # "init"
    /\ ust[u] = "new"
    /\ \A v \in Units : v < u => ust[v] # "new"
    /\ ust' = [ust EXCEPT ![u] = "told"]
    /\ lastWrite' = NoWrite
    /\ UNCHANGED <<call, rd, supVars, sessions, upc, rpc, closed, gateClosed, inbox,
                   kills, log, snd>>

\* ------------------------------------------------- session.go: sessionContext
\* What a business callback does with its SessionContext.
CtxOps == {"none", "close", "send"}

\* sessionContext.Close: operator.Close(c.GetSessionId())
sessionContext_Close_id(u) == GetSessionId(u)
\* sessionContext.Send: operator.Send(c.GetSessionId(), message)
sessionContext_Send_target(u) == Lookup(GetSessionId(u))

CtxEnabled(u, op) ==
    CASE op = "close" -> LockFree
      [] op = "send"  -> \/ sessionContext_Send_target(u) = NoUnit
                         \/ ~WriteLockHeld(sessionContext_Send_target(u))
      [] OTHER        -> TRUE
CtxSessions(u, op) ==
    IF op = "close" THEN Close_sessions(sessionContext_Close_id(u)) ELSE sessions
CtxKills(k, u, op) ==
    IF op = "close" THEN Close_kills(k, sessionContext_Close_id(u)) ELSE k
CtxWrite(u, op) ==
    IF op = "send" /\ sessionContext_Send_target(u) # NoUnit
    THEN <<u, sessionContext_Send_target(u)>>
    ELSE NoWrite

\* ------------------------------------------------------------------ actor.go
\* actor.onLaunch: keep the context, then reset (first launch: make the map)
actor_onLaunch ==
    /\ supSt = "init"
    /\ LockFree
    /\ supSt' = "running"
    /\ sessionsNil' = FALSE
    /\ sessions' = [i \in Ids |-> NoUnit]
    /\ lastWrite' = NoWrite
    /\ UNCHANGED <<call, rd, supCur, notices, ust, upc, rpc, closed, gateClosed, inbox,
                   kills, log, snd>>

\* actor.reset with a map: the refs it Kills
\* mutant: reset Kills nobody
reset_targets_none == {}

reset_targets == {v \in Units : \E i \in Ids : Lookup(i) = v}

\* actor.onKill: reset Kills every registered ref and installs an empty map;
\* the runtime then reports the supervisor's own termination.
actor_onKill ==
    /\ supSt = "running"
    /\ supCur = NoUnit
    /\ LockFree
    /\ supSt' = "killed"
    /\ kills' = [v \in Units |->
                   IF v \in reset_targets THEN KillRef(kills, v)[v] ELSE kills[v]]
    /\ sessions' = [i \in Ids |-> NoUnit]
    /\ notices' = notices \cup {SupRef}
    /\ lastWrite' = NoWrite
    /\ UNCHANGED <<call, rd, sessionsNil, supCur, ust, upc, rpc, closed, gateClosed,
                   inbox, log, snd>>

\* mutant: the entry is found by the identity of the terminated unit
onKilled_match_byId(i, killedRef) ==
    Lookup(i) # NoUnit /\ i = GetSessionId(killedRef)

\* mutant: no entry is removed for the terminated unit
onKilled_match_none(i, killedRef) == FALSE

\* actor.onKilled: the entry a termination notice for killedRef removes
onKilled_match(i, killedRef) == Lookup(i) # NoUnit /\ Lookup(i) = killedRef

\* actor.onKilled
actor_onKilled(killedRef) ==
    /\ supSt # "init"
    /\ supCur = NoUnit
    /\ killedRef \in notices
    /\ notices' = notices \ {killedRef}
    /\ IF killedRef = SupRef
       THEN UNCHANGED sessions
       ELSE /\ LockFree
            /\ sessions' = [i \in Ids |->
                 IF onKilled_match(i, killedRef) THEN NoUnit ELSE sessions[i]]
    /\ lastWrite' = NoWrite
    /\ UNCHANGED <<call, rd, sessionsNil, supSt, supCur, ust, upc, rpc, closed,
                   gateClosed, inbox, kills, log, snd>>

\* what a provider may hand out: a value, nil, or an error
Provided == {"ok", "nil", "err"}

\* mutant: a nil SessionActor or SessionReader is accepted
OnPrelaunch_nilAccepted(isClosed, providedActor, providedReader) ==
    IF isClosed THEN "session already closed"
    ELSE IF providedActor = "err" THEN "provider error"
    ELSE IF providedReader = "err" THEN "provider error"
    ELSE "nil"

\* sessionActor.OnPrelaunch: the error it returns, "nil" for none.  The
\* reader provider is asked only after the actor provider gave an actor.
OnPrelaunch(isClosed, providedActor, providedReader) ==
    IF isClosed THEN "session already closed"
    ELSE IF providedActor = "err" THEN "provider error"
    ELSE IF providedActor = "nil" THEN "nil session actor"
    ELSE IF providedReader = "err" THEN "provider error"
    ELSE IF providedReader = "nil" THEN "nil session reader"
    ELSE "nil"

\* mutant: the supervisor returns without closing the Session
onSession_spawnFailed_noClose(l, u) == l

\* actor.onSession, ActorOf returned an error: session.Close()
onSession_spawnFailed(l, u) == [l EXCEPT ![u] = Append(@, Ev("X", 0))]

\* actor.onSession up to ctx.ActorOf.  The runtime runs OnPrelaunch within
\* the spawn; the spawn fails when OnPrelaunch returns an error and may fail
\* for reasons of the runtime.  It succeeds (the unit's OnLaunch is queued) or
\* fails (the supervisor closes the Session and returns).  A provider that
\* has no actor or reader to give is noted in the log ("P").
onSession_spawn(u) ==
    /\ supSt = "running"
    /\ supCur = NoUnit
    /\ ust[u] = "told"
    /\ \E rt \in BOOLEAN, pa \in Provided, pr \in Provided :
         LET noted == IF pa # "ok" \/ pr # "ok"
                      THEN [log EXCEPT ![u] = Append(@, Ev("P", 0))]
                      ELSE log
             ok == rt /\ OnPrelaunch(closed[u], pa, pr) = "nil"
         IN IF ok
            THEN /\ ust' = [ust EXCEPT ![u] = "spawned"]
                 /\ supCur' = u
                 /\ log' = noted
            ELSE /\ ust' = [ust EXCEPT ![u] = "failed"]
                 /\ log' = onSession_spawnFailed(noted, u)
                 /\ UNCHANGED supCur
    /\ lastWrite' = NoWrite
    /\ UNCHANGED <<call, rd, sessionsNil, sessions, supSt, notices, upc, rpc, closed,
                   gateClosed, inbox, kills, snd>>

\* mutant: the supervisor does not look for an existing entry
onSession_existing_none(id) == NoUnit

\* actor.onSession, under sessionLock: the ref Killed on registration
onSession_existing(id) == Lookup(id)

\* mutant: an existing entry is evicted and the new one is not yet stored
onSession_put_evict(id, u) ==
    IF Lookup(id) # NoUnit THEN [sessions EXCEPT ![id] = NoUnit]
    ELSE [sessions EXCEPT ![id] = u]

\* actor.onSession, under sessionLock: n.sessions[id] = sessionInfo
onSession_put(id, u) == [sessions EXCEPT ![id] = u]

\* actor.onSession, under sessionLock: Kill the existing ref, store the new one
onSession_register(u) ==
    /\ supCur = u
    /\ LockFree
    /\ supCur' = NoUnit
    /\ LET id == GetSessionId(u)
           existing == onSession_existing(id)
       IN /\ kills' = IF existing # NoUnit THEN KillRef(kills, existing) ELSE kills
          /\ sessions' = onSession_put(id, u)
    /\ lastWrite' = NoWrite
    /\ UNCHANGED <<call, rd, sessionsNil, supSt, notices, ust, upc, rpc, closed,
                   gateClosed, inbox, log, snd>>

\* ---------------------------------------------------------------- session.go
\* What a business callback does: one SessionContext operation or a panic.
Behaviours == CtxOps \cup {"panic"}

\* mutant: the recovered panic is only logged
onLaunch_recovered_noKill(k, u) == k

\* sessionActor.onLaunch, deferred, after recover(): ctx.Kill(ctx.Ref(), ...)
onLaunch_recovered(k, u) == KillRef(k, u)

\* sessionActor.onLaunch: OnConnected, then go readLoop; a panic of
\* OnConnected is recovered and the unit Kills itself without a read loop.
\* The log notes OnConnected with 1 when it panicked.
sessionActor_onLaunch(u) ==
    /\ ust[u] = "spawned"
    /\ upc[u] = "idle"
    /\ ust' = [ust EXCEPT ![u] = "live"]
    /\ \E b \in Behaviours :
         IF b = "panic"
         THEN /\ log' = [log EXCEPT ![u] = Append(@, Ev("C", 1))]
              /\ kills' = onLaunch_recovered(kills, u)
              /\ lastWrite' = NoWrite
              /\ UNCHANGED <<sessions, rpc>>
         ELSE /\ log' = [log EXCEPT ![u] = Append(@, Ev("C", 0))]
              /\ CtxEnabled(u, b)
              /\ sessions' = CtxSessions(u, b)
              /\ kills' = CtxKills(kills, u, b)
              /\ lastWrite' = CtxWrite(u, b)
              /\ rpc' = [rpc EXCEPT ![u] = "check"]
    /\ UNCHANGED <<call, rd, supVars, upc, closed, gateClosed, inbox, snd>>

\* mutant: the kill handler does not test the flag
onKill_CAS_always(u) == TRUE

\* sessionActor.onKill: a.closed.CompareAndSwap(false, true)
onKill_CAS(u) == ~closed[u]

\* mutant: the teardown is not deferred, a panic of OnDisconnected skips it
onKill_next_noDefer(panicked) == IF panicked THEN "fault" ELSE "killGate"

\* sessionActor.onKill: where the serial context goes after OnDisconnected.
\* The teardown is a deferred function: it runs whether OnDisconnected
\* returned or panicked; there is no recover.
onKill_next(panicked) == IF panicked THEN "killGateF" ELSE "killGate"

\* sessionActor.onKill, deferred: the steps of the teardown in order; after
\* the last one the handler returns or the panic goes on to the runtime
onKill_after ==
    [killGate |-> "killClose", killClose |-> "closing", closing |-> "idle",
     killGateF |-> "killCloseF", killCloseF |-> "closingF",
     closingF |-> "fault"]

\* sessionActor.onKill up to the return of OnDisconnected.  Only the call
\* that wins the CAS goes on to the callback and the deferred teardown.
sessionActor_onKill(u) ==
    /\ ust[u] = "live"
    /\ upc[u] = "idle"
    /\ kills[u] > 0
    /\ IF onKill_CAS(u)
       THEN /\ closed' = [closed EXCEPT ![u] = TRUE]
            /\ log' = [log EXCEPT ![u] = Append(@, Ev("D", 0))]
            /\ upc' = [upc EXCEPT ![u] = onKill_next(FALSE)]
            /\ \E op \in CtxOps :
                 /\ CtxEnabled(u, op)
                 /\ sessions' = CtxSessions(u, op)
                 /\ kills' = CtxKills([kills EXCEPT ![u] = @ - 1], u, op)
                 /\ lastWrite' = CtxWrite(u, op)
       ELSE /\ kills' = [kills EXCEPT ![u] = @ - 1]
            /\ lastWrite' = NoWrite
            /\ UNCHANGED <<closed, log, upc, sessions>>
    /\ UNCHANGED <<call, rd, supVars, ust, rpc, gateClosed, inbox, snd>>

\* sessionActor.onKill won the CAS and OnDisconnected panics: the deferred
\* teardown runs while the panic unwinds
onKill_panic(u) ==
    /\ ust[u] = "live"
    /\ upc[u] = "idle"
    /\ kills[u] > 0
    /\ onKill_CAS(u)
    /\ closed' = [closed EXCEPT ![u] = TRUE]
    /\ log' = [log EXCEPT ![u] = Append(@, Ev("D", 0))]
    /\ upc' = [upc EXCEPT ![u] = onKill_next(TRUE)]
    /\ kills' = [kills EXCEPT ![u] = @ - 1]
    /\ lastWrite' = NoWrite
    /\ UNCHANGED <<call, rd, supVars, sessions, ust, rpc, gateClosed, inbox,
                   snd>>

\* mutant: the teardown leaves messageC open
onKill_gate_noClose(u) ==
    /\ upc[u] \in {"killGate", "killGateF"}
    /\ upc' = [upc EXCEPT ![u] = onKill_after[@]]
    /\ lastWrite' = NoWrite
    /\ UNCHANGED <<call, rd, supVars, sessions, ust, rpc, closed, gateClosed,
                   inbox, kills, log, snd>>

\* sessionActor.onKill, deferred: close(a.messageC)
onKill_gate(u) ==
    /\ upc[u] \in {"killGate", "killGateF"}
    /\ gateClosed' = [gateClosed EXCEPT ![u] = TRUE]
    /\ UNCHANGED log
    /\ upc' = [upc EXCEPT ![u] = onKill_after[@]]
    /\ lastWrite' = NoWrite
    /\ UNCHANGED <<call, rd, supVars, sessions, ust, rpc, closed, inbox, kills,
                   snd>>

\* sessionActor.onKill, deferred: writeLock.Lock()
onKill_lockw(u) ==
    /\ upc[u] \in {"killClose", "killCloseF"}
    /\ ~WriteLockHeld(u)
    /\ upc' = [upc EXCEPT ![u] = onKill_after[@]]
    /\ lastWrite' = NoWrite
    /\ UNCHANGED <<call, rd, supVars, sessions, ust, rpc, closed, gateClosed, inbox,
                   kills, log, snd>>

\* sessionActor.onKill, deferred: Session.Close(), then writeLock.Unlock()
onKill_close(u) ==
    /\ upc[u] \in {"closing", "closingF"}
    /\ log' = [log EXCEPT ![u] = Append(@, Ev("X", 0))]
    /\ upc' = [upc EXCEPT ![u] = onKill_after[@]]
    /\ lastWrite' = NoWrite
    /\ UNCHANGED <<call, rd, supVars, sessions, ust, rpc, closed, gateClosed, inbox,
                   kills, snd>>

\* mutant: the gate is signalled whatever the flag says
onMessage_signals_always(u) == TRUE

\* sessionActor.onMessage, deferred: the gate is signalled unless closed
onMessage_signals(u) == ~closed[u]

\* sessionActor.onMessage: where the serial context goes after OnMessage.
\* The deferred function runs whether OnMessage returned or panicked; there
\* is no recover, so a panic goes on to the runtime after it.
onMessage_next(u, panicked) ==
    IF onMessage_signals(u) THEN (IF panicked THEN "signalF" ELSE "signal")
    ELSE (IF panicked THEN "fault" ELSE "idle")

\* sessionActor.onMessage: OnMessage(ctx, message), then the deferred signal
sessionActor_onMessage(u) ==
    /\ ust[u] = "live"
    /\ upc[u] = "idle"
    /\ inbox[u] # <<>>
    /\ inbox' = [inbox EXCEPT ![u] = Tail(@)]
    /\ log' = [log EXCEPT ![u] = Append(@, Ev("M", Head(inbox[u])))]
    /\ \E b \in Behaviours :
         IF b = "panic"
         THEN /\ upc' = [upc EXCEPT ![u] = onMessage_next(u, TRUE)]
              /\ lastWrite' = NoWrite
              /\ UNCHANGED <<sessions, kills>>
         ELSE /\ CtxEnabled(u, b)
              /\ sessions' = CtxSessions(u, b)
              /\ kills' = CtxKills(kills, u, b)
              /\ lastWrite' = CtxWrite(u, b)
              /\ upc' = [upc EXCEPT ![u] = onMessage_next(u, FALSE)]
    /\ UNCHANGED <<call, rd, supVars, ust, rpc, closed, gateClosed, snd>>

\* a.messageC <- struct{}{} meets <-a.messageC of the read loop
onMessage_signal(u) ==
    /\ upc[u] \in {"signal", "signalF"}
    /\ rpc[u] = "wait"
    /\ upc' = [upc EXCEPT ![u] = IF @ = "signalF" THEN "fault" ELSE "idle"]
    /\ rpc' = [rpc EXCEPT ![u] = "check"]
    /\ lastWrite' = NoWrite
    /\ UNCHANGED <<call, rd, supVars, sessions, ust, closed, gateClosed, inbox, kills,
                   log, snd>>

\* what the runtime may do with a unit whose handler panicked: let it go on
\* with its inbox, or stop it (a kill request)
FaultDirectives == {"resume", "stop"}

\* the panic of OnMessage or OnDisconnected reaches the runtime
onMessage_fault(u) ==
    /\ upc[u] = "fault"
    /\ upc' = [upc EXCEPT ![u] = "idle"]
    /\ \E d \in FaultDirectives :
         kills' = IF d = "stop" THEN KillRef(kills, u) ELSE kills
    /\ lastWrite' = NoWrite
    /\ UNCHANGED <<call, rd, supVars, sessions, ust, rpc, closed, gateClosed, inbox,
                   log, snd>>

\* readLoop: for !a.closed.Load()
readLoop_check(u) ==
    /\ rpc[u] = "check"
    /\ rpc' = [rpc EXCEPT ![u] = IF closed[u] THEN "exit" ELSE "read"]
    /\ lastWrite' = NoWrite
    /\ UNCHANGED <<call, rd, supVars, sessions, ust, upc, closed, gateClosed, inbox,
                   kills, log, snd>>

\* what a.reader.Read() may return besides a frame with n == len(data):
\* io.EOF, another error, or a count that is not the length of the data
ReadFailures == {"eof", "err", "mismatch"}

\* mutant: the loop does not wait on the gate after handing a frame over
readLoop_next_nowait(res) == IF res = "frame" THEN "check" ELSE "exit"

\* readLoop: where the loop goes after a Read
readLoop_next(res) == IF res = "frame" THEN "wait" ELSE "exit"

\* mutant: the frame is queued twice
TellSelf_twice(q, u, data) ==
    IF Alive(u) THEN [q EXCEPT ![u] = Append(Append(@, data), data)] ELSE q

\* ctx.TellSelf(data): the frame is queued unless the unit is gone
TellSelf(q, u, data) == IF Alive(u) THEN [q EXCEPT ![u] = Append(@, data)] ELSE q

\* readLoop: a.reader.Read() returns a frame, which is told to the unit;
\* the loop then waits on the gate.  Frames are numbered as they are read.
\* A Session that has been closed yields no more frames.
readLoop_readFrame(u) ==
    /\ rpc[u] = "read"
    /\ SumReads(Units) < MaxFrames
    /\ Count(u, "X") = 0
    /\ rpc' = [rpc EXCEPT ![u] = readLoop_next("frame")]
    /\ log' = [log EXCEPT ![u] = Append(@, Ev("R", Count(u, "R") + 1))]
    /\ inbox' = TellSelf(inbox, u, Count(u, "R") + 1)
    /\ lastWrite' = NoWrite
    /\ UNCHANGED <<call, rd, supVars, sessions, ust, upc, closed, gateClosed, kills, snd>>

\* readLoop: a.reader.Read() fails and the loop returns
readLoop_readFail(u) ==
    /\ rpc[u] = "read"
    /\ \E res \in ReadFailures :
         /\ rpc' = [rpc EXCEPT ![u] = readLoop_next(res)]
         /\ log' = [log EXCEPT ![u] = Append(@, Ev("E", 0))]
    /\ lastWrite' = NoWrite
    /\ UNCHANGED <<call, rd, supVars, sessions, ust, upc, closed, gateClosed, inbox,
                   kills, snd>>

\* readLoop: <-a.messageC returns at once on the closed channel
readLoop_recvClosed(u) ==
    /\ rpc[u] = "wait"
    /\ gateClosed[u]
    /\ rpc' = [rpc EXCEPT ![u] = "check"]
    /\ lastWrite' = NoWrite
    /\ UNCHANGED <<call, rd, supVars, sessions, ust, upc, closed, gateClosed, inbox,
                   kills, log, snd>>

\* readLoop, deferred: ctx.Kill(ctx.Ref(), false, reason)
readLoop_exit(u) ==
    /\ rpc[u] = "exit"
    /\ rpc' = [rpc EXCEPT ![u] = "done"]
    /\ kills' = KillRef(kills, u)
    /\ lastWrite' = NoWrite
    /\ UNCHANGED <<call, rd, supVars, sessions, ust, upc, closed, gateClosed, inbox,
                   log, snd>>

\* The runtime ends a unit that handled OnKill: what is queued is discarded
\* and OnKilled goes to the supervisor.
Terminate(u) ==
    /\ ust[u] = "live"
    /\ upc[u] = "idle"
    /\ closed[u]
    /\ ust' = [ust EXCEPT ![u] = "dead"]
    /\ inbox' = [inbox EXCEPT ![u] = <<>>]
    /\ kills' = [kills EXCEPT ![u] = 0]
    /\ notices' = notices \cup {u}
    /\ lastWrite' = NoWrite
    /\ UNCHANGED <<call, rd, sessionsNil, sessions, supSt, supCur, upc, rpc, closed,
                   gateClosed, log, snd>>

\* -------------------------------------------------------- session_reader.go
\* what one Session.Read(buf) may give back: the count and the error
SessionReads == [n : 0..MaxRead, err : {"nil", "EOF", "err"}]

\* Read returned without calling Session.Read
NoRead == [n |-> 0, err |-> "none"]

\* the bytes of the stream are numbered from 1: what a Session.Read of n bytes
\* stores at the start of buf after off bytes were read
Bytes(off, n) == [k \in 1..n |-> off + k]

\* defaultSessionReader.Read reaches r.session.Read
Read_calls(r) == r.session /\ r.pendingErr = "nil"

\* mutant: an EOF that comes with the data is returned with it
defaultSessionReader_Read_eofAtOnce(r, raw, buf) ==
    [n |-> raw.n, data |-> SubSeq(buf, 1, raw.n), err |-> raw.err,
     pendingErr |-> "nil"]

\* defaultSessionReader.Read: its results and the pendingErr it leaves;
\* raw and buf are what r.session.Read gave back and stored
defaultSessionReader_Read(r, raw, buf) ==
    IF ~r.session
    THEN [n |-> 0, data |-> <<>>, err |-> "ErrClosedPipe",
          pendingErr |-> r.pendingErr]
    ELSE IF r.pendingErr # "nil"
    THEN [n |-> 0, data |-> <<>>, err |-> r.pendingErr, pendingErr |-> "nil"]
    ELSE LET data == IF raw.n > 0 THEN SubSeq(buf, 1, raw.n) ELSE <<>> IN
         IF raw.err # "nil" /\ raw.err # "EOF"
         THEN [n |-> raw.n, data |-> data, err |-> raw.err,
               pendingErr |-> "nil"]
         ELSE IF raw.err = "EOF"
         THEN [n |-> raw.n, data |-> data, err |-> "nil",
               pendingErr |-> "EOF"]
         ELSE [n |-> raw.n, data |-> data, err |-> "nil",
               pendingErr |-> "nil"]

\* readLoop: the result is handed to the unit (neither return is taken)
readLoop_tells(res) == res.err = "nil" /\ res.n = Len(res.data)

\* readLoop, one iteration on the default reader while the unit is not
\* closed: Read, then return on an error or a count that is not the length,
\* else TellSelf(data) and wait on messageC
readLoop_default ==
    /\ rd.pc = "read"
    /\ Len(rd.results) < MaxReads
    /\ \E raw \in (IF Read_calls(rd) THEN SessionReads ELSE {NoRead}) :
         LET buf == Bytes(rd.off, raw.n)
             res == defaultSessionReader_Read(rd, raw, buf)
         IN  rd' = [rd EXCEPT
                      !.pendingErr = res.pendingErr,
                      !.off = @ + raw.n,
                      !.results = Append(@, [n |-> res.n, data |-> res.data,
                                             err |-> res.err, raw |-> raw,
                                             bytes |-> buf]),
                      !.pc = IF readLoop_tells(res) THEN "wait" ELSE "exit",
                      !.inbox = IF readLoop_tells(res) THEN <<res.data>>
                                ELSE <<>>]
    /\ UNCHANGED <<call, sessionsNil, sessions, supSt, supCur, notices, ust,
                   upc, rpc, closed, gateClosed, inbox, kills, log, lastWrite,
                   snd>>

\* OnReceive with the []byte told by the read loop: onMessage gives it to
\* OnMessage and, the unit not being closed, signals messageC
onMessage_default ==
    /\ rd.pc = "wait"
    /\ rd.inbox # <<>>
    /\ rd' = [rd EXCEPT !.msgs = Append(@, Head(rd.inbox)),
                        !.inbox = <<>>,
                        !.pc = "read"]
    /\ UNCHANGED <<call, sessionsNil, sessions, supSt, supCur, notices, ust,
                   upc, rpc, closed, gateClosed, inbox, kills, log, lastWrite,
                   snd>>

\* --------------------------------------------------------------- the system
\* the supervisor, the units without their frames, and explicit Close
Lifecycle ==
    \/ actor_onLaunch
    \/ actor_onKill
    \/ \E r \in Units \cup {SupRef} : actor_onKilled(r)
    \/ \E u \in Units : TakeoverSession(u)
    \/ \E u \in Units : onSession_spawn(u)
    \/ \E u \in Units : onSession_register(u)
    \/ \E i \in Ids : Close(i)
    \/ \E u \in Units : sessionActor_onLaunch(u)
    \/ \E u \in Units : sessionActor_onKill(u)
    \/ \E u \in Units : onKill_gate(u)
    \/ \E u \in Units : onKill_lockw(u)
    \/ \E u \in Units : onKill_close(u)
    \/ \E u \in Units : readLoop_check(u)
    \/ \E u \in Units : readLoop_readFail(u)
    \/ \E u \in Units : readLoop_exit(u)
    \/ \E u \in Units : Terminate(u)

\* frames read, handled and acknowledged
Frames ==
    \/ \E u \in Units : readLoop_readFrame(u)
    \/ \E u \in Units : sessionActor_onMessage(u)
    \/ \E u \in Units : onMessage_signal(u)
    \/ \E u \in Units : onMessage_fault(u)
    \/ \E u \in Units : readLoop_recvClosed(u)

\* Send called from foreign goroutines
Sending ==
    \/ \E s \in Senders, i \in Ids, m \in {0, 1} : Send_begin(s, i, m)
    \/ \E s \in Senders : Send_lockw(s)
    \/ \E s \in Senders : Send_write(s)
    \/ \E s \in Senders : Send_return(s)

Next == Lifecycle \/ Frames

Spec == Init /\ [][Next]_vars

NextSend == Lifecycle \/ Sending

SpecSend == Init /\ [][NextSend]_vars

\* Send called from two foreign goroutines at once
Sending2 ==
    \/ \E s \in Senders2, i \in Ids, m \in {0, 1} : Send_begin(s, i, m)
    \/ \E s \in Senders2 : Send_lockw(s)
    \/ \E s \in Senders2 : Send_write(s)
    \/ \E s \in Senders2 : Send_return(s)

NextWrite == Lifecycle \/ Sending2

SpecWrite == Init /\ [][NextWrite]_vars

\* SendTo and Broadcast over a registry of two identities
NextSendTo ==
    \/ \E q \in Lists, m \in {0, 1}, nh \in 0..MaxHandlers : SendTo_call(q, m, nh)
    \/ SendTo_round
    \/ SendTo_return
    \/ \E m \in {0, 1}, nh \in 0..MaxHandlers : Broadcast_call(m, nh)
    \/ Broadcast_len
    \/ Broadcast_rlock
    \/ Broadcast_range

SpecSendTo == InitSendTo /\ [][NextSendTo]_vars

\* the lifecycle with an OnDisconnected that may panic
TeardownFaults == \E u \in Units : onKill_panic(u) \/ onMessage_fault(u)

NextTeardown == Lifecycle \/ TeardownFaults

SpecTeardown == Init /\ [][NextTeardown]_vars

\* one unit on the default reader, left alone by kills
NextReader == readLoop_default \/ onMessage_default

SpecReader == Init /\ [][NextReader]_vars

\* =================================================================== claims
IsPrefix(a, b) == Len(a) <= Len(b) /\ SubSeq(b, 1, Len(a)) = a
Delivered(u) == Payloads(log[u], "M")
ReadFrames(u) == Payloads(log[u], "R")

\* C1: whatever close triggers reach a unit and however often OnKill is
\* handled, OnDisconnected runs at most once and Session.Close is called at
\* most once, and both have happened exactly once when a teardown is over.
C1_IdempotentTeardown ==
    \A u \in Units :
        /\ Count(u, "D") <= 1
        /\ Count(u, "X") <= 1
        /\ (closed[u] /\ upc[u] = "idle") =>
               (Count(u, "D") = 1 /\ Count(u, "X") = 1)

\* C1 witness: the read loop failed, the teardown is over, the unit is no
\* longer the registered one and yet another kill request awaits it
C1_Witness ==
    \E u \in Units :
        /\ ust[u] = "live" /\ upc[u] = "idle" /\ kills[u] > 0
        /\ Count(u, "E") = 1 /\ Count(u, "X") = 1
        /\ Lookup(GetSessionId(u)) # u

\* C2: frame k+1 is read only after OnMessage returned for frame k, and at
\* most one frame that was read is not yet processed.
C2_Backpressure ==
    \A u \in Units :
        /\ \A i \in Pos(u, "R") :
               log[u][i][2] > 1 =>
                   \E j \in 1..(i - 1) : log[u][j] = Ev("M", log[u][i][2] - 1)
        /\ Count(u, "R") - Count(u, "M") <= 1
        /\ Len(inbox[u]) <= 1

\* C2 witness: a unit read its second frame
C2_Witness == \E u \in Units : Count(u, "R") = 2 /\ rpc[u] = "wait"

\* C3 as stated: every frame a unit's reader produced has been passed to
\* OnMessage, once and in order, by the time the unit is gone, also when a
\* close request arrived while a frame was handed over but not yet processed.
C3_Original ==
    \A u \in Units : ust[u] = "dead" => Delivered(u) = ReadFrames(u)

\* C3 amended: OnMessage gets the frames at most once each and in production
\* order (the delivered frames are a prefix of the frames read), and all of
\* them when the read loop itself met the terminal error or EOF; a frame
\* handed over when a kill is handled first may never be delivered.
C3_InOrderDelivery ==
    \A u \in Units :
        /\ IsPrefix(Delivered(u), ReadFrames(u))
        /\ Count(u, "E") > 0 => Delivered(u) = ReadFrames(u)

\* C3 witness: two frames were read and delivered and the reader then failed
C3_Witness ==
    \E u \in Units :
        /\ Count(u, "E") = 1
        /\ ReadFrames(u) = <<1, 2>>
        /\ Delivered(u) = <<1, 2>>

\* C9: a reader that yields one frame and then EOF has OnMessage called with
\* that frame exactly once before OnDisconnected; a reader that fails at once
\* leads to no OnMessage; in both cases the unit is torn down once the kill
\* request of the read loop has been handled.
C9_EndOfStream ==
    \A u \in Units :
        Count(u, "E") = 1 =>
            /\ Count(u, "R") = 1 =>
                   /\ Delivered(u) = <<1>>
                   /\ \A d \in Pos(u, "D"), m \in Pos(u, "M") : m < d
            /\ Count(u, "R") = 0 => Count(u, "M") = 0
            /\ (rpc[u] = "done" /\ kills[u] = 0 /\ upc[u] = "idle") =>
                   (Count(u, "D") = 1 /\ Count(u, "X") = 1)

\* C9 witness: one frame, then the failing read, then the teardown
C9_Witness ==
    \E u \in Units :
        /\ Count(u, "R") = 1 /\ Count(u, "E") = 1
        /\ Delivered(u) = <<1>>
        /\ Count(u, "D") = 1 /\ Count(u, "X") = 1
        /\ rpc[u] = "done"

\* No event is pending anywhere: no Session, OnLaunch, OnKill, frame or
\* OnKilled is queued, no handler is running, no closed unit awaits its end.
Quiescent ==
    /\ supSt = "running"
    /\ supCur = NoUnit
    /\ notices = {}
    /\ \A u \in Units :
        /\ ust[u] \notin {"told", "spawned"}
        /\ upc[u] = "idle"
        /\ kills[u] = 0
        /\ inbox[u] = <<>>
        /\ rpc[u] \notin {"exit"}
        /\ ust[u] = "live" => ~closed[u]

\* C4: when a Session is registered over an entry of the same identity, the
\* supervisor issues a kill for the earlier unit and the registry maps the
\* identity to the newer one; once no event is pending, every unit that is
\* not the registered one has been torn down (OnDisconnected ran, its stream
\* is closed) and the registry maps the identity to no unit but a running one.
C4_Register ==
    \A u \in Units :
        (supCur = u /\ supCur' = NoUnit) =>
            /\ Lookup(GetSessionId(u))' = u
            /\ \A v \in Units :
                   (Lookup(GetSessionId(u)) = v /\ Alive(v)) =>
                       kills'[v] = Min(kills[v] + 1, MaxKills)
C4_Settled ==
    Quiescent =>
        \A u \in Units :
            /\ (ust[u] = "live") <=> (Lookup(GetSessionId(u)) = u)
            /\ ust[u] = "dead" => (Count(u, "D") = 1 /\ Count(u, "X") = 1)
C4_Replacement == [][C4_Register]_vars /\ []C4_Settled

\* C4 witness: the first unit was replaced and torn down, its termination
\* notice was handled, and the registry holds the second unit
C4_Witness ==
    /\ Quiescent
    /\ ust[1] = "dead" /\ Count(1, "D") = 1 /\ Count(1, "X") = 1
    /\ Count(1, "E") = 0
    /\ ust[2] = "live" /\ Lookup("A") = 2

\* C5: onSession never leaves the identity without an entry: a step of
\* onSession that starts with an entry for the identity ends with one, so a
\* reader of the registry finds the old handle or the new one.
C5_Step ==
    \A u \in Units :
        ((supCur = u /\ supCur' = NoUnit) \/ (supCur = NoUnit /\ supCur' = u)
         \/ (ust[u] = "told" /\ ust'[u] = "failed")) =>
            (Lookup(GetSessionId(u)) # NoUnit => Lookup(GetSessionId(u))' # NoUnit)
C5_NoGap == [][C5_Step]_vars

\* C5 witness: a Send is at its write to the old unit while the new unit is
\* spawned and waits for the registry lock
C5_Witness ==
    /\ supCur = 2
    /\ Lookup("A") = 1
    /\ \E s \in Senders : snd[s].pc = "writing" /\ snd[s].tgt = 1

\* C6: handling the termination notice of address r removes the entry whose
\* unit is r and no other; the entry of a successor stays, and the
\* supervisor's own notice changes nothing.
C6_Step ==
    \A r \in Units \cup {SupRef} :
        (r \in notices /\ r \notin notices') =>
            \A i \in Ids :
                /\ (r # SupRef /\ Lookup(i) = r) => Lookup(i)' = NoUnit
                /\ (r = SupRef \/ Lookup(i) # r) => Lookup(i)' = Lookup(i)
C6_CompareAndDelete == [][C6_Step]_vars

\* C6 witness: the notice of the replaced first unit has been handled and the
\* second unit is still registered
C6_Witness ==
    /\ ust[1] = "dead" /\ 1 \notin notices
    /\ ust[2] = "live" /\ Lookup("A") = 2

\* C7 as stated: a step in which a callback of unit u runs (OnConnected,
\* OnMessage or OnDisconnected, with whatever it does with its context)
\* removes no entry of another unit and issues no kill for another unit.
CallbackOf(u) ==
    /\ Len(log'[u]) = Len(log[u]) + 1
    /\ log'[u][Len(log'[u])][1] \in {"C", "M", "D"}
C7_Step ==
    \A u \in Units :
        CallbackOf(u) =>
            \A v \in Units \ {u} :
                /\ kills'[v] = kills[v]
                /\ \A i \in Ids : Lookup(i) = v => Lookup(i)' = v
C7_Original == [][C7_Step]_vars

\* C8 as stated: a Write made through the context of unit u goes to the
\* Session of unit u.
C8_Original == lastWrite[1] \in Units => lastWrite[2] = lastWrite[1]

\* C10: a Send with an empty payload or for an identity without an entry
\* returns nil without a Write, and no step of Send changes the registry.
C10_Returned ==
    \A s \in Senders :
        (snd[s].pc = "ret" /\ (snd[s].msg = 0 \/ ~snd[s].found)) =>
            (snd[s].ret = "nil" /\ ~snd[s].did)
C10_Step ==
    \A s \in Senders :
        snd'[s] # snd[s] =>
            /\ sessions' = sessions /\ sessionsNil' = sessionsNil
            /\ (snd'[s].pc = "ret" /\ ~snd'[s].did) => lastWrite' = NoWrite
C10_SendNoOp == []C10_Returned /\ [][C10_Step]_vars

\* C10 witness: a Send with an empty payload for a registered identity has
\* returned
C10_Witness ==
    \E s \in Senders :
        /\ snd[s].pc = "ret" /\ snd[s].msg = 0 /\ snd[s].ret = "nil"
        /\ Lookup(snd[s].id) # NoUnit

\* C11 as stated: once the teardown of a unit has closed its Session, no Send
\* calls Write on that Session, and a Send for its identity returns nil; this
\* includes the time between the teardown and the supervisor's handling of
\* the termination notice, in which the entry is still in the registry.
C11_Original ==
    \A s \in Senders :
        /\ snd[s].pc = "writing" => Count(snd[s].tgt, "X") = 0
        /\ (snd[s].pc = "ret" /\ snd[s].tgt # NoUnit
              /\ Count(snd[s].tgt, "X") > 0) => snd[s].ret = "nil"

\* C12: on the Session of each unit, the Writes of Send and the Close of the
\* teardown never overlap, and two Sends never have their Writes overlap: at
\* any time at most one context is inside Write or Close of that Session, a
\* Write by a callback's context starts only when nobody is, and a Session
\* the supervisor closed itself (spawn failure) is never written to.
C12_Inside(v) ==
    Cardinality({s \in Senders2 : snd[s].pc = "writing" /\ snd[s].tgt = v})
        + (IF upc[v] \in {"closing", "closingF"} THEN 1 ELSE 0)
C12_Exclusive ==
    /\ \A v \in Units : C12_Inside(v) <= 1
    /\ \A s \in Senders2 :
           snd[s].pc \in {"lockw", "writing"} =>
               ust[snd[s].tgt] \in {"spawned", "live", "dead"}
C12_Step ==
    \A u \in Units :
        (CallbackOf(u) /\ lastWrite' # NoWrite) => C12_Inside(lastWrite'[2]) = 0
C12_WriteCloseExclusion == []C12_Exclusive /\ [][C12_Step]_vars

\* C12 witness: one Send is inside Write on the Session of a unit while the
\* other Send and the teardown of that unit both wait for its write lock
C12_Witness ==
    \E v \in Units :
        /\ snd[11].pc = "writing" /\ snd[11].tgt = v
        /\ snd[12].pc = "lockw" /\ snd[12].tgt = v
        /\ upc[v] = "killClose"

\* C13 as stated: no context holds the registry lock while a Session.Write
\* is in progress, so that during a Write the registry stays open to its
\* writers: Close can go ahead for any identity, and so can the registration
\* of a unit the supervisor has spawned.
C13_Original ==
    \A s \in Senders :
        snd[s].pc = "writing" =>
            /\ \A i \in Ids : ENABLED Close(i)
            /\ \A u \in Units : supCur = u => ENABLED onSession_register(u)

\* C14 as stated: every access to the registry map happens while the
\* accessing context holds the registry lock; for Broadcast: the step that
\* queries the length of the map and the step that ranges over it are both
\* taken with the read lock held.
C14_Step ==
    (call.pc \in {"len", "range"} /\ call'.pc # call.pc) => call.rlock
C14_Original == [][C14_Step]_vars

\* the identities of a list in order of first occurrence
RECURSIVE Dedup(_)
Dedup(q) ==
    IF q = <<>> THEN <<>>
    ELSE LET r == Dedup(SubSeq(q, 1, Len(q) - 1))
             x == q[Len(q)]
         IN IF \E j \in DOMAIN r : r[j] = x THEN r ELSE Append(r, x)

IsRegistered(i) == Lookup(i) # NoUnit
WrittenIds == [j \in DOMAIN call.writes |-> call.writes[j][1]]

\* C15: SendTo calls Send at most once per distinct identity and in order of
\* first occurrence: the Sends made so far are a prefix of the deduplicated
\* list, they are all of it when SendTo returns without an abort, and the
\* Writes are those Sends whose identity is registered.
C15_Dedup ==
    /\ IsPrefix(call.sends, Dedup(call.ids))
    /\ (call.pc = "done" /\ ~call.aborted /\ call.msg # 0) =>
           call.sends = Dedup(call.ids)
    /\ WrittenIds = SelectSeq(call.sends, IsRegistered)

\* C15 witness: SendTo([A, A, B]) with both registered returned after exactly
\* two Writes, to A and then to B
C15_Witness ==
    /\ call.pc = "done" /\ call.op = "sendto"
    /\ call.ids = <<"A", "A", "B">>
    /\ WrittenIds = <<"A", "B">>

\* the handler calls made for an identity, in order
HandledFor(i) == SelectSeq(call.handled, LAMBDA e : e[1] = i)
Failed(i) == \E j \in DOMAIN call.writes : call.writes[j] = <<i, "err">>
AnyAbort == \E j \in DOMAIN call.handled : call.handled[j][3]

\* the later identities are attempted iff no handler answered abort = true;
\* without handlers none is called and every distinct identity is attempted
C16_AbortRule ==
    /\ call.aborted <=> AnyAbort
    /\ call.aborted =>
           /\ call.pc = "done"
           /\ call.handled[Len(call.handled)][3]
           /\ call.sends[Len(call.sends)] = call.handled[Len(call.handled)][1]
    /\ (call.pc = "done" /\ ~call.aborted /\ call.msg # 0) =>
           call.sends = Dedup(call.ids)
    /\ call.nh = 0 => call.handled = <<>>
    /\ \A j \in DOMAIN call.handled : Failed(call.handled[j][1])

\* C16 as stated: when the Write to an identity fails, each supplied handler
\* is called with that identity, and the abort rule holds.
C16_Original ==
    /\ \A i \in SendToIds :
           Failed(i) =>
               \A h \in 1..call.nh :
                   \E j \in DOMAIN call.handled :
                       call.handled[j][1] = i /\ call.handled[j][2] = h
    /\ C16_AbortRule

\* C16 amended: when the Write to an identity fails, the supplied handlers
\* are called in order with that identity until one answers abort = true (the
\* handlers after it are not called), and the abort rule holds.
C16_HandlersUntilAbort ==
    /\ \A i \in SendToIds :
           (Failed(i) /\ call.nh > 0) =>
               LET hs == HandledFor(i)
               IN /\ Len(hs) \in 1..call.nh
                  /\ \A m \in DOMAIN hs :
                         /\ hs[m][2] = m
                         /\ m < Len(hs) => ~hs[m][3]
                  /\ ~hs[Len(hs)][3] => Len(hs) = call.nh
    /\ C16_AbortRule

\* C16 witness: with two handlers the Write to A failed, the first handler
\* answered abort = true, and B, registered too, was not attempted
C16_Witness ==
    /\ call.pc = "done" /\ call.nh = 2
    /\ call.ids = <<"A", "B">>
    /\ IsRegistered("B")
    /\ call.writes = <<<<"A", "err">>>>
    /\ call.handled = <<<<"A", 1, TRUE>>>>

\* C17: when the spawn of a unit fails, the supervisor closes the incoming
\* Session exactly once and leaves the registry as it is: no entry is
\* removed or added and no unit is killed; the Session is not closed again.
C17_Step ==
    \A u \in Units :
        (ust[u] = "told" /\ ust'[u] = "failed") =>
            /\ sessions' = sessions /\ sessionsNil' = sessionsNil
            /\ kills' = kills
            /\ supCur' = supCur
C17_Failed ==
    \A u \in Units :
        ust[u] = "failed" =>
            /\ Count(u, "X") = 1
            /\ \A i \in Ids : Lookup(i) # u
C17_SpawnFailure == [][C17_Step]_vars /\ []C17_Failed

\* C17 witness: the spawn for the second Session failed while the first unit
\* of the same identity is registered and running, with no kill pending
C17_Witness ==
    /\ ust[2] = "failed" /\ Count(2, "X") = 1
    /\ ust[1] = "live" /\ Lookup("A") = 1 /\ kills[1] = 0 /\ ~closed[1]

\* C18: a unit whose SessionActor provider or SessionReader provider gives
\* an error or nil never launches: OnConnected, OnMessage and OnDisconnected
\* are never invoked for it and its reader is never read.
C18_PrelaunchFailure ==
    \A u \in Units :
        Count(u, "P") > 0 =>
            /\ ust[u] = "failed"
            /\ rpc[u] = "none"
            /\ \A k \in {"C", "M", "D", "R", "E"} : Count(u, k) = 0

\* C18 witness: the providers failed for the first Session, which was closed,
\* and the second Session of the same identity runs
C18_Witness ==
    /\ Count(1, "P") = 1 /\ Count(1, "X") = 1
    /\ ust[2] = "live" /\ Lookup("A") = 2

\* OnConnected of the unit panicked
ConnectFaulted(u) == \E j \in DOMAIN log[u] : log[u][j] = Ev("C", 1)

\* C19: when OnConnected panics, the unit requests its own termination in
\* the same handler, its read loop is never started (no Read, no OnMessage),
\* and the teardown runs once: never twice, and it has run when the kill
\* request has been handled.
C19_Step ==
    \A u \in Units :
        (~ConnectFaulted(u) /\ ConnectFaulted(u)') =>
            kills'[u] = Min(kills[u] + 1, MaxKills)
C19_Contained ==
    \A u \in Units :
        ConnectFaulted(u) =>
            /\ rpc[u] = "none"
            /\ \A k \in {"R", "M", "E"} : Count(u, k) = 0
            /\ Count(u, "D") <= 1 /\ Count(u, "X") <= 1
            /\ (ust[u] = "dead" \/ (kills[u] = 0 /\ upc[u] = "idle")) =>
                   (Count(u, "D") = 1 /\ Count(u, "X") = 1)
C19_ConnectFault == [][C19_Step]_vars /\ []C19_Contained

\* C19 witness: OnConnected panicked, the unit was torn down and is gone
C19_Witness ==
    \E u \in Units :
        /\ ConnectFaulted(u) /\ ust[u] = "dead"
        /\ Count(u, "D") = 1 /\ Count(u, "X") = 1

\* C20 as stated: when OnMessage panics, the unit itself initiates its
\* teardown (a kill request for itself) and does not signal the gate.
C20_Step ==
    \A u \in Units :
        (upc[u] = "idle" /\ upc'[u] \in {"signalF", "fault"}) =>
            /\ upc'[u] # "signalF"
            /\ kills'[u] = Min(kills[u] + 1, MaxKills)
C20_Original == [][C20_Step]_vars

\* ---------------------------------------------------------------------------
\* C21: operator.Close is idempotent.  A Close that finds the identity removes
\* the entry and sends one Kill to the ref it held; on an identity that is not
\* registered it changes neither the map nor the kills, and since a Close
\* leaves the identity unregistered, a second Close right after it is such a
\* no-op.
C21_CloseStep ==
    /\ UNCHANGED <<call, rd, supVars, ust, upc, rpc, closed, gateClosed, inbox,
                   log, snd>>
    /\ \/ sessions' # sessions
       \/ \E v \in Units : kills'[v] > kills[v]

C21_Step ==
    C21_CloseStep =>
        \E i \in Ids :
            /\ Lookup(i) # NoUnit
            /\ sessions' = [sessions EXCEPT ![i] = NoUnit]
            /\ sessions'[i] = NoUnit
            /\ kills' = IF Alive(Lookup(i))
                        THEN [kills EXCEPT ![Lookup(i)] = Min(@ + 1, MaxKills)]
                        ELSE kills

C21_Absent ==
    \A i \in Ids :
        Lookup(i) = NoUnit =>
            /\ Close_sessions(i) = sessions
            /\ Close_kills(kills, i) = kills

C21_CloseIdempotent == []C21_Absent /\ [][C21_Step]_vars

\* a Close has removed the only unit ever spawned and sent it one Kill
C21_Witness ==
    /\ supSt = "running"
    /\ supCur = NoUnit
    /\ \A i \in Ids : Lookup(i) = NoUnit
    /\ \E v \in Units :
        /\ ust[v] = "live"
        /\ kills[v] = 1
        /\ ~closed[v]
        /\ \A w \in Units \ {v} : ust[w] = "new"

\* ---------------------------------------------------------------------------
\* C22: supervisor shutdown.  When the supervisor handles its own OnKill with
\* a map in place, a Kill goes to every ref registered at that moment and the
\* map is empty afterwards; on OnLaunch, where the map is still nil, an empty
\* map is installed and no Kill is sent.
C22_Registered == {v \in Units : \E i \in Ids : ~sessionsNil /\ sessions[i] = v}

C22_Step ==
    /\ (supSt = "running" /\ supSt' = "killed") =>
          /\ ~sessionsNil /\ ~sessionsNil'
          /\ \A i \in Ids : sessions'[i] = NoUnit
          /\ \A v \in Units :
                kills'[v] = IF v \in C22_Registered /\ Alive(v)
                            THEN Min(kills[v] + 1, MaxKills)
                            ELSE kills[v]
    /\ (supSt = "init" /\ supSt' = "running") =>
          /\ sessionsNil /\ ~sessionsNil'
          /\ \A i \in Ids : sessions'[i] = NoUnit
          /\ kills' = kills

C22_Shutdown == [][C22_Step]_vars

\* the supervisor was killed while a live unit was registered: that unit holds
\* the Kill and the map is empty
C22_Witness ==
    /\ supSt = "killed"
    /\ SupRef \in notices
    /\ \A i \in Ids : Lookup(i) = NoUnit
    /\ \E v \in Units : ust[v] = "live" /\ kills[v] = 1 /\ ~closed[v]

\* ---------------------------------------------------------------------------
\* C23: the default reader at end of stream.  When Session.Read gives n > 0
\* bytes together with EOF, Read returns (n, those bytes, nil) and the next
\* Read returns (0, empty, EOF) without calling Session.Read; and in every
\* result data is empty exactly when the count is 0 and the count is the
\* length of data.
C23_TrailingData(j) ==
    LET r == rd.results[j] IN
    (r.raw.n > 0 /\ r.raw.err = "EOF") =>
        /\ r.n = r.raw.n
        /\ r.data = r.bytes
        /\ Len(r.bytes) = r.raw.n
        /\ r.err = "nil"
        /\ rd.pendingErr = "EOF" \/ j < Len(rd.results)
        /\ j < Len(rd.results) =>
              /\ rd.results[j + 1].raw = NoRead
              /\ rd.results[j + 1].n = 0
              /\ rd.results[j + 1].data = <<>>
              /\ rd.results[j + 1].err = "EOF"

C23_Shape(j) ==
    LET r == rd.results[j] IN
    /\ (r.data = <<>>) <=> (r.n = 0)
    /\ r.n = Len(r.data)

C23_EndOfStream ==
    \A j \in 1..Len(rd.results) : C23_TrailingData(j) /\ C23_Shape(j)

\* a read of two bytes with EOF was followed by the Read that reports EOF
C23_Witness ==
    \E j \in 1..Len(rd.results) :
        /\ rd.results[j].raw.n = 2
        /\ rd.results[j].raw.err = "EOF"
        /\ j < Len(rd.results)
        /\ rd.results[j + 1].err = "EOF"
        /\ rd.pc = "exit"

\* ---------------------------------------------------------------------------
\* C29 (as stated): with the default reader OnMessage is never given an empty
\* payload, and a Session whose first Read gives (0, EOF) is torn down with no
\* OnMessage at all.
C29_Original ==
    /\ \A j \in 1..Len(rd.msgs) : rd.msgs[j] # <<>>
    /\ (/\ Len(rd.results) > 0
        /\ rd.results[1].raw = [n |-> 0, err |-> "EOF"]) => rd.msgs = <<>>

\* ---------------------------------------------------------------------------
\* C24: a write failure is only reported.  A Send that is inside Write can
\* have it fail and then returns the error; the step in which Write returns,
\* with or without an error, and the return of Send leave the map, the kills,
\* the units and their Sessions as they are.
C24_Reported ==
    \A s \in Senders :
        snd[s].pc = "writing" =>
            ENABLED (Send_write(s) /\ snd'[s].ret = "err")

C24_Step ==
    \A s \in Senders :
        (snd[s].pc \in {"writing", "ret"} /\ snd'[s] # snd[s]) =>
            /\ snd[s].pc = "writing" =>
                  /\ snd'[s].pc = "ret"
                  /\ snd'[s].did
                  /\ snd'[s].ret \in {"nil", "err"}
            /\ UNCHANGED <<sessionsNil, sessions, supSt, supCur, notices, ust,
                           upc, rpc, closed, gateClosed, inbox, kills, log>>

C24_WriteFailure == []C24_Reported /\ [][C24_Step]_vars

\* a Send got the error of Write back; the unit written to is registered and
\* running, with no Kill pending and its Session open
C24_Witness ==
    \E s \in Senders :
        /\ snd[s].pc = "ret" /\ snd[s].ret = "err" /\ snd[s].did
        /\ Lookup(snd[s].id) = snd[s].tgt
        /\ ust[snd[s].tgt] = "live"
        /\ kills[snd[s].tgt] = 0
        /\ ~closed[snd[s].tgt]
        /\ Count(snd[s].tgt, "X") = 0

\* ---------------------------------------------------------------------------
\* C25: the gate neither panics nor blocks the serial context.  Whenever
\* onMessage is at its send on messageC, the channel has not been closed (the
\* unit is not closed at all) and the read loop is at its receive, so the
\* send can complete at once; the context leaves the send only by that
\* rendezvous, which lets the read loop go on.
C25_AtSend(u) == upc[u] \in {"signal", "signalF"}

C25_Receivable ==
    \A u \in Units :
        C25_AtSend(u) =>
            /\ ~gateClosed[u]
            /\ ~closed[u]
            /\ ust[u] = "live"
            /\ rpc[u] = "wait"
            /\ ENABLED onMessage_signal(u)

C25_Step ==
    \A u \in Units :
        /\ (C25_AtSend(u) /\ upc'[u] # upc[u]) =>
              /\ rpc[u] = "wait" /\ rpc'[u] = "check"
              /\ upc'[u] = IF upc[u] = "signalF" THEN "fault" ELSE "idle"
        /\ (C25_AtSend(u) /\ upc'[u] = upc[u]) =>
              /\ rpc'[u] = "wait"
              /\ ~gateClosed'[u]

C25_GateNeverBlocks == []C25_Receivable /\ [][C25_Step]_vars

\* onMessage is at its send while a Kill for the unit is already pending
C25_Witness ==
    \E u \in Units :
        /\ upc[u] = "signal"
        /\ kills[u] > 0
        /\ rpc[u] = "wait"

\* ---------------------------------------------------------------------------
\* C26: the teardown releases a waiting read loop.  Once the unit is closed, a
\* read loop that waits on the gate can only go on to the loop test, from
\* there to its return and to its deferred Kill: it reads nothing and tells
\* the unit nothing any more.  The teardown does close the gate, and on the
\* closed gate the wait, the test and the return can each be taken.
C26_Order == <<"wait", "check", "exit", "done">>

C26_At(u, k) == rpc[u] = C26_Order[k]

C26_Step ==
    \A u \in Units : \A k \in 1..4 :
        (closed[u] /\ C26_At(u, k)) =>
            /\ rpc'[u] = C26_Order[k] \/ (k < 4 /\ rpc'[u] = C26_Order[k + 1])
            /\ Count(u, "R")' = Count(u, "R")
            /\ Count(u, "E")' = Count(u, "E")
            /\ Len(inbox'[u]) <= Len(inbox[u])

C26_Released ==
    \A u \in Units :
        /\ upc[u] \in {"killGate", "killGateF"} => ENABLED onKill_gate(u)
        /\ (closed[u] /\ upc[u] \notin {"killGate", "killGateF"}) =>
              gateClosed[u]
        /\ (gateClosed[u] /\ rpc[u] = "wait") => ENABLED readLoop_recvClosed(u)
        /\ (closed[u] /\ rpc[u] = "check") =>
              ENABLED (readLoop_check(u) /\ rpc'[u] = "exit")
        /\ rpc[u] = "exit" => ENABLED readLoop_exit(u)

C26_WaitingLoopReleased == []C26_Released /\ [][C26_Step]_vars

\* the loop read a frame and waited; the Kill overtook the frame, and the
\* loop has returned without a failed Read and without the frame's signal
C26_Witness ==
    \E u \in Units :
        /\ Count(u, "R") = 1
        /\ Count(u, "M") = 0
        /\ Count(u, "E") = 0
        /\ gateClosed[u]
        /\ rpc[u] = "done"

\* ---------------------------------------------------------------------------
\* C27: the order of one teardown.  OnDisconnected has been invoked before
\* the gate is closed and before Session.Close, the gate is closed before
\* Session.Close, and a teardown whose OnDisconnected panicked still closes
\* the gate and the Session before the panic leaves the handler.  (A unit
\* whose spawn failed has no teardown: the supervisor closes its Session.)
C27_Order ==
    \A u \in Units :
      ust[u] # "failed" =>
        /\ gateClosed[u] => Count(u, "D") = 1
        /\ Count(u, "X") > 0 => gateClosed[u]
        /\ \A x \in Pos(u, "X") : \E d \in Pos(u, "D") : d < x
        /\ (closed[u] /\ upc[u] \in {"idle", "fault"}) =>
              gateClosed[u] /\ Count(u, "X") = 1
        /\ upc[u] \in {"killGate", "killGateF"} =>
              /\ ~gateClosed[u] /\ Count(u, "X") = 0
              /\ ENABLED onKill_gate(u)
        /\ upc[u] \in {"closing", "closingF"} =>
              /\ gateClosed[u] /\ Count(u, "X") = 0
              /\ ENABLED onKill_close(u)

C27_Step ==
    \A u \in Units :
        /\ Count(u, "D")' > Count(u, "D") =>
              /\ ~gateClosed'[u]
              /\ Count(u, "X")' = 0
              /\ upc'[u] \in {"killGate", "killGateF"}
        /\ (~gateClosed[u] /\ gateClosed'[u]) => Count(u, "X")' = 0
        /\ (upc[u] = "closingF" /\ upc'[u] # upc[u]) =>
              upc'[u] = "fault" /\ Count(u, "X")' = 1

C27_TeardownOrder == []C27_Order /\ [][C27_Step]_vars

\* the panic of OnDisconnected is about to reach the runtime: by then the
\* gate and the Session are closed
C27_Witness ==
    \E u \in Units :
        /\ upc[u] = "fault"
        /\ closed[u]
        /\ gateClosed[u]
        /\ Count(u, "X") = 1

\* ---------------------------------------------------------------------------
\* C28: registry cleanup after a unit ended.  Once the termination notice of
\* a unit has been handled (and the supervisor is not just registering that
\* unit), no entry of the registry holds the unit's address; while the notice
\* is queued the supervisor can handle it as soon as it has finished what it
\* is doing, and handling it leaves no entry with that address.
C28_Clean ==
    \A u \in Units :
        (ust[u] = "dead" /\ u \notin notices /\ supCur # u) =>
            \A i \in Ids : Lookup(i) # u

C28_Handled ==
    \A u \in Units :
        u \in notices =>
            /\ ust[u] = "dead"
            /\ supSt # "init"
            /\ supCur = NoUnit => ENABLED actor_onKilled(u)
            /\ supCur # NoUnit => ENABLED onSession_register(supCur)

C28_Step ==
    \A u \in Units :
        /\ (u \in notices /\ u \notin notices') =>
              \A i \in Ids : Lookup(i)' # u
        /\ (u \in notices /\ u \in notices') => ust'[u] = "dead"

C28_RegistryCleanup == []C28_Clean /\ []C28_Handled /\ [][C28_Step]_vars

\* a unit ended after a failed Read while it was registered; its notice has
\* been handled and the registry is empty
C28_Witness ==
    \E u \in Units :
        /\ ust[u] = "dead"
        /\ Count(u, "E") = 1
        /\ u \notin notices
        /\ supSt = "running"
        /\ supCur = NoUnit
        /\ \A i \in Ids : Lookup(i) = NoUnit
        /\ \A w \in Units \ {u} : ust[w] = "new"

\* ---------------------------------------------------------------------------
\* C30 (as stated): for each unit, OnConnected is invoked before any
\* OnMessage, and no OnMessage is invoked after OnDisconnected.
C30_Original ==
    \A u \in Units :
        /\ \A m \in Pos(u, "M") : \E c \in Pos(u, "C") : c < m
        /\ \A d \in Pos(u, "D") : \A m \in Pos(u, "M") : m < d

====
